---- MODULE Spec2Model ----
(***************************************************************************)
(* Trigger / poll / fetch workflow of the Bright Data SDK:                 *)
(* WorkflowExecutor.execute and the scraper operations built on it         *)
(* (BaseWebScraper.scrape_async, AmazonScraper products / reviews /        *)
(* sellers).  The Dataset API client, the poller (utils.polling), the URL  *)
(* validators and the exception hierarchy are collaborators whose code is  *)
(* outside the analysed sources; they are modelled from the specification. *)
(* Spec runs one operation; ConcSpec interleaves two operations of one     *)
(* cached scraper; CancelSpec adds the cancellation of a suspended         *)
(* execution; ClientSpec runs BrightDataClient.test_connection and         *)
(* list_zones; EngineSpec runs the client's service properties and its     *)
(* async context manager.                                                  *)
(***************************************************************************)
EXTENDS Integers, Sequences, FiniteSets, TLC

VARIABLES
    ex,     \* one call frame per execution: arguments, locals, position, result
    now,    \* the wall clock (datetime.now / the poller's clock), in seconds
    calls,  \* the Dataset API client calls issued so far, in order
    client  \* a BrightDataClient: its tokens, its services and the engines it made

vars == <<ex, now, calls, client>>

----------------------------------------------------------------------------
(* Bounds of the model *)

MaxRecords == 2     \* longest payload fetch_result returns
MaxUrls == 2        \* longest URL list a caller passes
MaxInterval == 2    \* largest poll_interval passed to execute directly
MaxTimeout == 4     \* largest small poll_timeout a caller passes
MaxRtt == 2         \* longest round trip of one client call, in seconds
MaxEntries == 2     \* most entries of the client's async context

(* Program constants *)

DefaultPollInterval == 10
MIN_POLL_TIMEOUT == 180
AMAZON_MIN_POLL_TIMEOUT == 240
AmazonPollInterval == 10
AmazonDefaultTimeout == 240

Execs == {"e1", "e2"}

----------------------------------------------------------------------------
(* Python values *)

NoneStr == "None"       \* None where a str is expected
NoneInt == -1           \* None where a number / datetime is expected

Records == {"r1", "r2"}

\* result.data: None, a list of records, a single record, or a mapping that a
\* normalizer built around the list
DNone == [kind |-> "none", items |-> <<>>, val |-> NoneStr]
DList(s) == [kind |-> "list", items |-> s, val |-> NoneStr]
DRec(r) == [kind |-> "rec", items |-> <<>>, val |-> r]

\* bool(data)
Truthy(d) ==
    CASE d.kind = "none" -> FALSE
      [] d.kind = "list" -> Len(d.items) > 0
      [] OTHER -> TRUE

IsList(d) == d.kind = "list"

\* a str or None used as a condition
FalsyStr(s) == s = "" \/ s = NoneStr

\* error text: None, or the concatenation of its parts
NoError == [set |-> FALSE, text |-> <<>>]
ErrText(parts) == [set |-> TRUE, text |-> parts]
Contains(err, part) == err.set /\ \E i \in 1..Len(err.text) : err.text[i] = part
NonEmptyError(err) == err.set /\ \E i \in 1..Len(err.text) : err.text[i] # ""

SeqsUpTo(S, n) == UNION {[1..k -> S] : k \in 0..n}
NonEmptySeqsUpTo(S, n) == UNION {[1..k -> S] : k \in 1..n}

----------------------------------------------------------------------------
(* Exceptions *)

APIErrorExc == [type |-> "APIError", msg |-> "HTTP 500"]
AuthErrorExc == [type |-> "AuthenticationError", msg |-> "HTTP 401"]
NoExc == [type |-> "none", msg |-> ""]
ClientErrors == {APIErrorExc, AuthErrorExc}

\* isinstance(e, APIError): AuthenticationError and APIError are siblings
IsAPIError(e) == e.type = "APIError"

Str(e) == e.msg

----------------------------------------------------------------------------
(* ScrapeResult *)

ScrapeResult(success, url, status, data, error, platform, method, sent, received, fetched) ==
    [success |-> success, url |-> url, status |-> status, data |-> data,
     error |-> error, platform |-> platform, method |-> method,
     trigger_sent_at |-> sent, snapshot_id_received_at |-> received,
     data_fetched_at |-> fetched]

NoResult == ScrapeResult(FALSE, "", "unset", DNone, NoError, NoneStr, "unset",
                         NoneInt, NoneInt, NoneInt)

----------------------------------------------------------------------------
(* Normalization functions a caller may hand to execute.  NoneStr stands for
   "no normalize_func"; "identity" is BaseWebScraper.normalize_result. *)

MapRec(r) == CASE r = "r1" -> "N1" [] r = "r2" -> "N2" [] OTHER -> r

MapSeq(s) == [i \in 1..Len(s) |-> MapRec(s[i])]

\* variant: the base normalizer hands the records back in reverse order
normalize_result_Reversed(data) ==
    [data EXCEPT !.items = [i \in 1..Len(data.items) |-> data.items[Len(data.items) + 1 - i]]]

\* variant: the base normalizer keeps the first record only
normalize_result_FirstOnly(data) ==
    IF Len(data.items) > 1 THEN [data EXCEPT !.items = SubSeq(data.items, 1, 1)] ELSE data

\* BaseWebScraper.normalize_result
normalize_result(data) == data

Normalize(f, d) ==
    CASE f = "identity" -> normalize_result(d)
      [] f = "map" -> IF d.kind = "list" THEN DList(MapSeq(d.items))
                      ELSE IF d.kind = "rec" THEN DRec(MapRec(d.val)) ELSE d
      [] f = "wrap" -> [kind |-> "wrapped", items |-> d.items, val |-> d.val]
      [] OTHER -> d

NormalizeRaises(f, d) == f = "raise"

NormalizeFuncs == {NoneStr, "identity", "map", "wrap", "raise"}

----------------------------------------------------------------------------
(* Collaborators outside the analysed sources *)

Urls == {"u1", "u2", "bad"}

\* validate_url / validate_url_list: TRUE when the validator raises
UrlInvalid(u) == u = "bad"
UrlListInvalid(l) == Len(l) = 0 \/ \E i \in 1..Len(l) : UrlInvalid(l[i])

\* the input URL a record of the provider was scraped from
SourceUrl(r) == CASE r = "r1" -> "u1" [] r = "r2" -> "u2" [] OTHER -> NoneStr

\* what the Dataset API client can answer
TriggerOutcomes ==
    {[exc |-> NoExc, ret |-> s] : s \in {"snap1", "snap2", "", NoneStr}}
    \cup {[exc |-> x, ret |-> NoneStr] : x \in ClientErrors}

StatusOutcomes ==
    {[exc |-> NoExc, ret |-> s] : s \in {"running", "ready", "failed"}}
    \cup {[exc |-> x, ret |-> NoneStr] : x \in ClientErrors}

FetchOutcomes ==
    {[exc |-> NoExc, data |-> DList(s)] : s \in SeqsUpTo(Records, MaxRecords)}
    \cup {[exc |-> x, data |-> DNone] : x \in ClientErrors}

Rtts == {0, MaxRtt}

OutcomeLabel(out) == IF out.exc = NoExc THEN "ok" ELSE out.exc.type

Call(e, op, sid, out, ret) == [e |-> e, op |-> op, sid |-> sid, out |-> out, ret |-> ret]

\* records the poller returns
PollerTimeoutResult(timeout, platform, method, sent, received, t) ==
    ScrapeResult(FALSE, "", "timeout", DNone,
                 ErrText(<<"Polling timeout after ", "poll_timeout", "s">>),
                 platform, method, sent, received, t)

PollerFailedResult(status, platform, method, sent, received, t) ==
    ScrapeResult(FALSE, "", "error", DNone,
                 ErrText(<<"Job failed with status: ", status>>),
                 platform, method, sent, received, t)

PollerStatusErrorResult(exc, platform, method, sent, received, t) ==
    ScrapeResult(FALSE, "", "error", DNone,
                 ErrText(<<"Failed to get status: ", Str(exc)>>),
                 platform, method, sent, received, t)

PollerFetchErrorResult(exc, platform, method, sent, received, t) ==
    ScrapeResult(FALSE, "", "error", DNone,
                 ErrText(<<"Failed to fetch results: ", Str(exc)>>),
                 platform, method, sent, received, t)

PollerSuccessResult(data, platform, method, sent, received, t) ==
    ScrapeResult(TRUE, "", "ready", data, NoError,
                 platform, method, sent, received, t)

\* the deadline is reached
DeadlineReached(t, deadline) == t >= deadline

\* the statuses that end the wait
IsReadyStatus(status) == status = "ready"
IsFailedStatus(status) == status = "failed"

----------------------------------------------------------------------------
(* WorkflowExecutor *)

\* variant: the trigger-failure record without its error text
TriggerFailedResult_NoError(exc, platform_name, sent, t) ==
    ScrapeResult(FALSE, "", "error", DNone, NoError,
                 platform_name, "web_scraper", sent, NoneInt, t)

\* variant: the trigger-failure record carries a snapshot_id_received_at
TriggerFailedResult_ReceivedStamped(exc, platform_name, sent, t) ==
    ScrapeResult(FALSE, "", "error", DNone,
                 ErrText(<<"Trigger failed: ", Str(exc)>>),
                 platform_name, "web_scraper", sent, t, t)

\* execute, trigger raised APIError
TriggerFailedResult(exc, platform_name, sent, t) ==
    ScrapeResult(FALSE, "", "error", DNone,
                 ErrText(<<"Trigger failed: ", Str(exc)>>),
                 platform_name, "web_scraper", sent, NoneInt, t)

\* variant: the record for a missing snapshot_id carries the status "failed"
NoSnapshotResult_StatusFailed(platform_name, sent, t) ==
    ScrapeResult(FALSE, "", "failed", DNone,
                 ErrText(<<"Failed to trigger scrape - no snapshot_id returned">>),
                 platform_name, "web_scraper", sent, NoneInt, t)

\* variant: the record for a missing snapshot_id carries no platform
NoSnapshotResult_NoPlatform(platform_name, sent, t) ==
    ScrapeResult(FALSE, "", "error", DNone,
                 ErrText(<<"Failed to trigger scrape - no snapshot_id returned">>),
                 NoneStr, "web_scraper", sent, NoneInt, t)

\* execute, trigger returned no snapshot_id
NoSnapshotResult(platform_name, sent, t) ==
    ScrapeResult(FALSE, "", "error", DNone,
                 ErrText(<<"Failed to trigger scrape - no snapshot_id returned">>),
                 platform_name, "web_scraper", sent, NoneInt, t)

\* variant: no except clause around the trigger call
TriggerCaught_Never(exc) == FALSE

\* except APIError
TriggerCaught(exc) == IsAPIError(exc)

\* if not snapshot_id
NoSnapshotId(snapshot_id) == FalsyStr(snapshot_id)

\* variant: normalize_func is called on every record whenever it was supplied
ShouldNormalize_WheneverSupplied(result, normalize_func) == normalize_func # NoneStr

\* _poll_and_fetch: the condition under which normalize_func is called
ShouldNormalize(result, normalize_func) ==
    result.success /\ Truthy(result.data) /\ normalize_func # NoneStr

\* variant: the fetched payload is returned without normalization
ApplyNormalization_Never(result, normalize_func) == result

\* _poll_and_fetch: the record it returns when normalize_func does not raise
ApplyNormalization(result, normalize_func) ==
    IF ShouldNormalize(result, normalize_func)
    THEN [result EXCEPT !.data = Normalize(normalize_func, result.data)]
    ELSE result

----------------------------------------------------------------------------
(* Scrapers *)

GENERIC_DATASET_ID == "gd_generic"
DATASET_ID == "gd_l7q7dkf244hwxbl93"
DATASET_ID_REVIEWS == "gd_l1vq6tkpl34p7mq7c"
DATASET_ID_SELLERS == "gd_lwjkkolem8c4o7j3s"

\* the scraper classes: a plain subclass of BaseWebScraper that keeps the
\* defaults, and AmazonScraper
ScraperClasses == {"generic", "amazon"}

ClassDatasetId(cls) == IF cls = "amazon" THEN DATASET_ID ELSE GENERIC_DATASET_ID
ClassPlatformName(cls) == IF cls = "amazon" THEN "amazon" ELSE ""
ClassMinPollTimeout(cls) ==
    IF cls = "amazon" THEN AMAZON_MIN_POLL_TIMEOUT ELSE MIN_POLL_TIMEOUT

\* BaseWebScraper.__init__: platform_name=self.PLATFORM_NAME or None
ExecutorPlatformName(cls) ==
    IF ClassPlatformName(cls) = "" THEN NoneStr ELSE ClassPlatformName(cls)

\* a payload item; a key the dict does not hold is None here
Item(u, pastDays, keyWord, numOfReviews) ==
    [url |-> u, pastDays |-> pastDays, keyWord |-> keyWord,
     numOfReviews |-> numOfReviews]

\* _build_scrape_payload and _scrape_urls: [{"url": u} for u in url_list]
UrlPayload(url_list) ==
    [i \in 1..Len(url_list) |-> Item(url_list[i], NoneInt, NoneStr, NoneInt)]

\* variant: the filters are written into the first item only
ReviewsPayload_FirstItemOnly(url_list, pastDays, keyWord, numOfReviews) ==
    [i \in 1..Len(url_list) |->
        IF i = 1 THEN Item(url_list[i], pastDays, keyWord, numOfReviews)
        ELSE Item(url_list[i], NoneInt, NoneStr, NoneInt)]

\* reviews_async: one item per URL, each filter only when it is not None
ReviewsPayload(url_list, pastDays, keyWord, numOfReviews) ==
    [i \in 1..Len(url_list) |-> Item(url_list[i], pastDays, keyWord, numOfReviews)]

\* urls: a str or a list of str
StrArg(u) == [kind |-> "str", items |-> <<u>>]
ListArg(l) == [kind |-> "list", items |-> l]
IsStr(arg) == arg.kind = "str"

\* url_list = [urls] if is_single else urls
UrlList(arg) == arg.items

\* variant: only the first URL of the argument is validated
ArgInvalid_FirstOnly(arg) == UrlInvalid(arg.items[1])

\* validate_url for a str, validate_url_list for a list: TRUE when it raises
ArgInvalid(arg) ==
    IF IsStr(arg) THEN UrlInvalid(arg.items[1]) ELSE UrlListInvalid(arg.items)

\* scrape_async: timeout = poll_timeout or self.MIN_POLL_TIMEOUT
ScrapeTimeout(poll_timeout, cls) ==
    IF poll_timeout = NoneInt \/ poll_timeout = 0
    THEN ClassMinPollTimeout(cls) ELSE poll_timeout

\* variant: a single URL always gets the first record of a non-empty list
ScrapeCollapse_FirstRecord(result, urls) ==
    IF IsStr(urls) /\ IsList(result.data) /\ Len(result.data.items) >= 1
    THEN [result EXCEPT !.url = urls.items[1], !.data = DRec(result.data.items[1])]
    ELSE result

\* variant: for a single URL an empty list collapses to None
ScrapeCollapse_EmptyToNone(result, urls) ==
    IF IsStr(urls) /\ IsList(result.data) /\ Len(result.data.items) = 1
    THEN [result EXCEPT !.url = urls.items[1], !.data = DRec(result.data.items[1])]
    ELSE IF IsStr(urls) /\ IsList(result.data) /\ Len(result.data.items) = 0
    THEN [result EXCEPT !.url = urls.items[1], !.data = DNone]
    ELSE result

\* scrape_async: the single-result branch
ScrapeCollapse(result, urls) ==
    IF IsStr(urls) /\ IsList(result.data) /\ Len(result.data.items) = 1
    THEN [result EXCEPT !.url = urls.items[1], !.data = DRec(result.data.items[1])]
    ELSE result

\* variant: the sole element is unwrapped but url is left as execute set it
AmazonCollapse_KeepUrl(result, url) ==
    IF IsStr(url) /\ IsList(result.data) /\ Len(result.data.items) = 1
    THEN [result EXCEPT !.data = DRec(result.data.items[1])]
    ELSE result

\* _scrape_urls and reviews_async: the single-result branch
AmazonCollapse(result, url) ==
    IF IsStr(url) /\ IsList(result.data) /\ Len(result.data.items) = 1
    THEN [result EXCEPT !.url = url.items[1], !.data = DRec(result.data.items[1])]
    ELSE result

----------------------------------------------------------------------------
(* BrightDataClient: list_zones and test_connection *)

ClientOps == {"test_connection", "list_zones"}

ZONES_ENDPOINT == "/zone/get_active_zones"

\* an HTTP response: its status and what its body parses to
Response(status, body) == [status |-> status, body |-> body]
NoResponse == Response(0, NoneStr)

HttpStatuses == {200, 401, 500}

\* a body that is a JSON list, a JSON object, or not JSON
ZoneBodies == {"list", "dict", "garbage"}

NetworkErrorExc == [type |-> "ClientConnectionError", msg |-> "connection refused"]

\* what engine.get can answer: a response, or an exception of the engine
EngineOutcomes ==
    {[exc |-> NoExc, response |-> Response(st, b)] : st \in HttpStatuses, b \in ZoneBodies}
    \cup {[exc |-> x, response |-> NoResponse] : x \in ClientErrors \cup {NetworkErrorExc}}

\* isinstance(e, Exception)
IsException(e) == e.type \in {"APIError", "AuthenticationError", "ClientConnectionError",
                              "ValidationError", "NormalizeError", "TimeoutError"}

\* list_zones: response.status != 200
ListZonesBadStatus(response) == response.status # 200

\* list_zones: response.json() raises
ListZonesBadJson(response) == response.body = "garbage"

\* list_zones: the APIError it raises
ListZonesError(response) ==
    IF ListZonesBadStatus(response)
    THEN [type |-> "APIError", msg |-> "Failed to list zones"]
    ELSE [type |-> "APIError", msg |-> "Failed to parse zones response"]

\* list_zones: return data if isinstance(data, list) else []
ListZonesValue(response) == IF response.body = "list" THEN "zones" ELSE "[]"

\* variant: test_connection catches APIError only
TestConnectionCatches_APIErrorOnly(exc) == IsAPIError(exc)

\* test_connection: except (AuthenticationError, APIError) and except Exception
TestConnectionCatches(exc) ==
    \/ exc.type \in {"AuthenticationError", "APIError"}
    \/ IsException(exc)

----------------------------------------------------------------------------
(* BrightDataClient: engines, services and the async context manager *)

\* self._engine = None, self._scrape = None: no engine, no service
NoEngine == 0

Services == {"scrape", "search", "crawler"}

\* the constructor: token.strip() for a non-empty str, else None
StripToken(arg) ==
    CASE arg = " " -> ""
      [] arg = " s " -> "s"
      [] OTHER -> arg

ServiceTokenOf(arg) == IF FalsyStr(arg) THEN NoneStr ELSE StripToken(arg)

\* what a caller passes as scrape_token, search_token, crawler_token; the
\* general token is "t"
TokenArgs == {NoneStr, " s ", "t", " "}

\* AsyncEngine(token): a new engine, not yet entered
NewEngine(token) == [token |-> token, state |-> "new"]

\* BrightDataClient.__init__
NewClient(scrape_token, search_token, crawler_token) ==
    [token |-> "t",
     scrape_token |-> ServiceTokenOf(scrape_token),
     search_token |-> ServiceTokenOf(search_token),
     crawler_token |-> ServiceTokenOf(crawler_token),
     engine |-> NoEngine,
     service |-> [svc \in Services |-> NoEngine],
     engines |-> <<>>,
     in_context |-> FALSE, entries |-> 0, exits |-> 0]

\* the client of the specifications that do not look at the engines
NoClient == NewClient(NoneStr, NoneStr, NoneStr)

\* self._scrape_token, self._search_token, self._crawler_token
ServiceToken(c, svc) ==
    CASE svc = "scrape" -> c.scrape_token
      [] svc = "search" -> c.search_token
      [] svc = "crawler" -> c.crawler_token

\* _get_engine(service_token): the client afterwards and the engine returned
GetEngine(c, service_token) ==
    IF ~FalsyStr(service_token)
    THEN [client |-> [c EXCEPT !.engines = Append(@, NewEngine(service_token))],
          id |-> Len(c.engines) + 1]
    ELSE IF c.engine = NoEngine
    THEN [client |-> [c EXCEPT !.engines = Append(@, NewEngine(c.token)),
                               !.engine = Len(c.engines) + 1],
          id |-> Len(c.engines) + 1]
    ELSE [client |-> c, id |-> c.engine]

\* the scrape / search / crawler property: the service is built on first access
ServiceProperty(c, svc) ==
    IF c.service[svc] = NoEngine
    THEN LET g == GetEngine(c, ServiceToken(c, svc))
         IN [g.client EXCEPT !.service[svc] = g.id]
    ELSE c

\* __aenter__: self._engine is created if missing, then entered
AEnterClient(c) ==
    LET d == IF c.engine = NoEngine
             THEN [c EXCEPT !.engines = Append(@, NewEngine(c.token)),
                            !.engine = Len(c.engines) + 1]
             ELSE c
    IN [d EXCEPT !.engines[d.engine].state = "open",
                 !.in_context = TRUE, !.entries = @ + 1]

\* __aexit__: self._engine is closed if there is one
AExitClient(c) ==
    LET d == IF c.engine # NoEngine
             THEN [c EXCEPT !.engines[c.engine].state = "closed"]
             ELSE c
    IN [d EXCEPT !.in_context = FALSE, !.exits = @ + 1]

Scrape ==
    /\ client' = ServiceProperty(client, "scrape")
    /\ client' # client
    /\ UNCHANGED <<ex, now, calls>>

Search ==
    /\ client' = ServiceProperty(client, "search")
    /\ client' # client
    /\ UNCHANGED <<ex, now, calls>>

Crawler ==
    /\ client' = ServiceProperty(client, "crawler")
    /\ client' # client
    /\ UNCHANGED <<ex, now, calls>>

AEnter ==
    /\ ~client.in_context
    /\ client.entries < MaxEntries
    /\ client' = AEnterClient(client)
    /\ UNCHANGED <<ex, now, calls>>

AExit ==
    /\ client.in_context
    /\ client' = AExitClient(client)
    /\ UNCHANGED <<ex, now, calls>>

EngineNext == Scrape \/ Search \/ Crawler \/ AEnter \/ AExit

----------------------------------------------------------------------------
(* Call frames *)

Frame(op, cls, urls, arg_interval, arg_timeout, pastDays, keyWord, numOfReviews) ==
    [pc |-> "start", op |-> op, cls |-> cls, urls |-> urls,
     arg_interval |-> arg_interval, arg_timeout |-> arg_timeout,
     pastDays |-> pastDays, keyWord |-> keyWord, numOfReviews |-> numOfReviews,
     platform_name |-> ExecutorPlatformName(cls),
     payload |-> <<>>, dataset_id |-> "", poll_interval |-> 0, poll_timeout |-> 0,
     normalize_func |-> NoneStr,
     trigger_sent_at |-> NoneInt, snapshot_id |-> NoneStr,
     snapshot_id_received_at |-> NoneInt, deadline |-> NoneInt,
     fetched |-> DNone, normalize_calls |-> 0,
     rec |-> NoResult, result |-> NoResult, raised |-> NoExc,
     response |-> NoResponse, value |-> NoneStr, cancelled |-> NoneInt]

\* a caller of WorkflowExecutor.execute: the frame starts inside execute
ExecuteFrame(platform_name, interval, timeout, normalize_func) ==
    [Frame("execute", "generic", ListArg(<<"u1">>), interval, timeout,
           NoneInt, NoneStr, NoneInt)
     EXCEPT !.pc = "trigger", !.platform_name = platform_name,
            !.payload = UrlPayload(<<"u1">>), !.dataset_id = GENERIC_DATASET_ID,
            !.poll_interval = interval, !.poll_timeout = timeout,
            !.normalize_func = normalize_func]

OffFrame ==
    [Frame("none", "generic", ListArg(<<>>), 0, 0, NoneInt, NoneStr, NoneInt)
     EXCEPT !.pc = "off"]

UrlArgs ==
    {StrArg(u) : u \in Urls} \cup {ListArg(l) : l \in NonEmptySeqsUpTo(Urls, MaxUrls)}

SmallTimeouts == 0..MaxTimeout

\* timeouts a caller of an Amazon operation passes: a few polls' worth
AmazonTimeouts == {AmazonPollInterval * k : k \in SmallTimeouts}

ExecuteFrames ==
    {ExecuteFrame(p, i, t, f) :
        p \in {"amazon", NoneStr}, i \in 1..MaxInterval, t \in SmallTimeouts,
        f \in NormalizeFuncs}

\* scrape_async: every URL argument with a short timeout, and one valid URL
\* with the timeouts that select MIN_POLL_TIMEOUT
ScrapeAsyncFrames ==
    {Frame("scrape_async", c, u, DefaultPollInterval, t, NoneInt, NoneStr, NoneInt) :
        c \in ScraperClasses, u \in UrlArgs, t \in {DefaultPollInterval * MaxInterval}}
    \cup
    {Frame("scrape_async", c, StrArg("u1"), DefaultPollInterval, t, NoneInt, NoneStr, NoneInt) :
        c \in ScraperClasses, t \in {NoneInt, 0}}

\* products and sellers: every URL argument with a short timeout, and one
\* valid URL with the timeout left at its default
ProductsFrames ==
    {Frame(op, "amazon", u, AmazonPollInterval, t, NoneInt, NoneStr, NoneInt) :
        op \in {"products", "sellers"}, u \in UrlArgs, t \in AmazonTimeouts}
    \cup
    {Frame(op, "amazon", StrArg("u1"), AmazonPollInterval, AmazonDefaultTimeout,
           NoneInt, NoneStr, NoneInt) : op \in {"products", "sellers"}}

ReviewsFrames ==
    {Frame("reviews", "amazon", u, AmazonPollInterval, t, d, k, n) :
        u \in UrlArgs, t \in {AmazonPollInterval * MaxInterval},
        d \in {NoneInt, 30}, k \in {NoneStr, "quality"}, n \in {NoneInt, 100}}

InitialFrames == ExecuteFrames \cup ScrapeAsyncFrames \cup ProductsFrames \cup ReviewsFrames

Init ==
    /\ \E f \in InitialFrames : ex = [e \in Execs |-> IF e = "e1" THEN f ELSE OffFrame]
    /\ now = 0
    /\ calls = <<>>
    /\ client = NoClient

\* a client built with any service tokens, before any use
EngineInit ==
    /\ ex = [e \in Execs |-> OffFrame]
    /\ now = 0
    /\ calls = <<>>
    /\ \E a, b, c \in TokenArgs : client = NewClient(a, b, c)

\* service access and context entry / exit in any order
EngineSpec == EngineInit /\ [][EngineNext]_vars

----------------------------------------------------------------------------
(* Steps of one execution.  A step runs from one await to the next. *)

ValidationErrorExc == [type |-> "ValidationError", msg |-> "Invalid URL"]
NormalizeErrorExc == [type |-> "NormalizeError", msg |-> "normalize_func raised"]

SetFrame(e, f) == ex' = [ex EXCEPT ![e] = f]

TimeoutErrorExc == [type |-> "TimeoutError", msg |-> "Polling timeout"]

\* variant: a timeout is raised instead of returned
Returned_RaiseOnTimeout(f, result) ==
    IF result.status = "timeout"
    THEN [f EXCEPT !.raised = TimeoutErrorExc, !.pc = "raised"]
    ELSE [f EXCEPT !.rec = result, !.result = result,
                   !.pc = IF f.op = "execute" THEN "done" ELSE "exec_returned"]

\* variant: after a failure record for an accepted job, the wait is resumed
Returned_PollAgain(f, result) ==
    IF result.status = "error" /\ f.snapshot_id # NoneStr
    THEN [f EXCEPT !.pc = "poll"]
    ELSE [f EXCEPT !.rec = result, !.result = result,
                   !.pc = IF f.op = "execute" THEN "done" ELSE "exec_returned"]

\* variant: a failed trigger is tried again
Returned_RetryTrigger(f, result) ==
    IF result.status = "error" /\ f.snapshot_id = NoneStr
    THEN [f EXCEPT !.pc = "trigger"]
    ELSE [f EXCEPT !.rec = result, !.result = result,
                   !.pc = IF f.op = "execute" THEN "done" ELSE "exec_returned"]

\* variant: a failure record is turned into a raised APIError
Returned_RaiseOnError(f, result) ==
    IF result.status = "error"
    THEN [f EXCEPT !.raised = APIErrorExc, !.pc = "raised"]
    ELSE [f EXCEPT !.rec = result, !.result = result,
                   !.pc = IF f.op = "execute" THEN "done" ELSE "exec_returned"]

\* execute returns result to its caller
Returned(f, result) ==
    [f EXCEPT !.rec = result, !.result = result,
              !.pc = IF f.op = "execute" THEN "done" ELSE "exec_returned"]

CancelledErrorExc == [type |-> "CancelledError", msg |-> ""]

\* variant: a cancellation is swallowed and the polling loop goes on
Raised_SwallowCancel(f, exc) ==
    IF exc = CancelledErrorExc
    THEN [f EXCEPT !.pc = "poll"]
    ELSE [f EXCEPT !.raised = exc, !.pc = "raised"]

\* variant: an exception of normalize_func is suppressed and the payload is
\* returned as fetched
Raised_SuppressNormalizeError(f, exc) ==
    IF exc = NormalizeErrorExc
    THEN Returned(f, PollerSuccessResult(f.fetched, f.platform_name, "web_scraper",
                         f.trigger_sent_at, f.snapshot_id_received_at, now))
    ELSE [f EXCEPT !.raised = exc, !.pc = "raised"]

\* an exception leaves the operation
Raised(f, exc) == [f EXCEPT !.raised = exc, !.pc = "raised"]

\* the frame on entry to execute
EnterExecute(f, payload, dataset_id, poll_interval, poll_timeout, normalize_func) ==
    [f EXCEPT !.pc = "trigger", !.payload = payload, !.dataset_id = dataset_id,
              !.poll_interval = poll_interval, !.poll_timeout = poll_timeout,
              !.normalize_func = normalize_func]

\* BaseWebScraper.scrape_async up to the call of execute
ScrapeAsyncBegin(e) ==
    LET f == ex[e] IN
    /\ f.pc = "start" /\ f.op = "scrape_async"
    /\ IF ArgInvalid(f.urls)
       THEN SetFrame(e, Raised(f, ValidationErrorExc))
       ELSE SetFrame(e, EnterExecute(f, UrlPayload(UrlList(f.urls)),
                                     ClassDatasetId(f.cls), f.arg_interval,
                                     ScrapeTimeout(f.arg_timeout, f.cls), "identity"))
    /\ UNCHANGED <<now, calls>>

\* AmazonScraper.products_async and _scrape_urls up to the call of execute
ProductsBegin(e) ==
    LET f == ex[e] IN
    /\ f.pc = "start" /\ f.op = "products"
    /\ IF ArgInvalid(f.urls)
       THEN SetFrame(e, Raised(f, ValidationErrorExc))
       ELSE SetFrame(e, EnterExecute(f, UrlPayload(UrlList(f.urls)), DATASET_ID,
                                     AmazonPollInterval, f.arg_timeout, "identity"))
    /\ UNCHANGED <<now, calls>>

\* AmazonScraper.sellers_async and _scrape_urls up to the call of execute
SellersBegin(e) ==
    LET f == ex[e] IN
    /\ f.pc = "start" /\ f.op = "sellers"
    /\ IF ArgInvalid(f.urls)
       THEN SetFrame(e, Raised(f, ValidationErrorExc))
       ELSE SetFrame(e, EnterExecute(f, UrlPayload(UrlList(f.urls)), DATASET_ID_SELLERS,
                                     AmazonPollInterval, f.arg_timeout, "identity"))
    /\ UNCHANGED <<now, calls>>

\* AmazonScraper.reviews_async up to the call of execute
ReviewsBegin(e) ==
    LET f == ex[e] IN
    /\ f.pc = "start" /\ f.op = "reviews"
    /\ IF ArgInvalid(f.urls)
       THEN SetFrame(e, Raised(f, ValidationErrorExc))
       ELSE SetFrame(e, EnterExecute(f, ReviewsPayload(UrlList(f.urls), f.pastDays,
                                                       f.keyWord, f.numOfReviews),
                                     DATASET_ID_REVIEWS, AmazonPollInterval,
                                     f.arg_timeout, "identity"))
    /\ UNCHANGED <<now, calls>>

\* variant: the dataset id is handed to the poller in place of the snapshot id
PollerEntry_WrongId(f, snapshot_id, t) ==
    [f EXCEPT !.snapshot_id = f.dataset_id, !.snapshot_id_received_at = t,
              !.deadline = t + f.poll_timeout, !.pc = "poll"]

\* variant: snapshot_id_received_at is stamped one second late
PollerEntry_LateStamp(f, snapshot_id, t) ==
    [f EXCEPT !.snapshot_id = snapshot_id, !.snapshot_id_received_at = t + 1,
              !.deadline = t + f.poll_timeout, !.pc = "poll"]

\* the snapshot id the latest successful trigger call of any execution returned
LastTriggeredId(default) ==
    LET S == {i \in 1..Len(calls) :
                 calls[i].op = "trigger" /\ calls[i].out = "ok" /\ ~FalsyStr(calls[i].ret)}
    IN IF S = {} THEN default
       ELSE calls[CHOOSE i \in S : \A j \in S : j <= i].ret

\* variant: the snapshot id is kept on the shared executor, where the latest
\* trigger of any execution overwrites it before the poller reads it
PollerEntry_SharedId(f, snapshot_id, t) ==
    [f EXCEPT !.snapshot_id = LastTriggeredId(snapshot_id), !.snapshot_id_received_at = t,
              !.deadline = t + f.poll_timeout, !.pc = "poll"]

\* variant: the deadline is counted from the moment the trigger was sent
PollerEntry_DeadlineFromSend(f, snapshot_id, t) ==
    [f EXCEPT !.snapshot_id = snapshot_id, !.snapshot_id_received_at = t,
              !.deadline = f.trigger_sent_at + f.poll_timeout, !.pc = "poll"]

\* execute after a usable snapshot_id arrived at time t: the call of
\* _poll_and_fetch and of the poller, which records its deadline on entry
PollerEntry(f, snapshot_id, t) ==
    [f EXCEPT !.snapshot_id = snapshot_id, !.snapshot_id_received_at = t,
              !.deadline = t + f.poll_timeout, !.pc = "poll"]

\* WorkflowExecutor.execute: the trigger call and what follows it, up to the
\* entry of the poller
Trigger(e) ==
    LET f == ex[e] IN
    /\ f.pc = "trigger"
    /\ \E out \in TriggerOutcomes, rtt \in Rtts :
         LET sent == now
             t == now + rtt
             g == [f EXCEPT !.trigger_sent_at = sent]
         IN /\ now' = t
            /\ calls' = Append(calls, Call(e, "trigger", NoneStr, OutcomeLabel(out), out.ret))
            /\ IF out.exc # NoExc
               THEN IF TriggerCaught(out.exc)
                    THEN SetFrame(e, Returned(g,
                             TriggerFailedResult(out.exc, f.platform_name, sent, t)))
                    ELSE SetFrame(e, Raised(g, out.exc))
               ELSE IF NoSnapshotId(out.ret)
                    THEN SetFrame(e, Returned(g, NoSnapshotResult(f.platform_name, sent, t)))
                    ELSE SetFrame(e, PollerEntry(g, out.ret, t))

\* poll_until_ready: the deadline test and one status check
PollCheck(e) ==
    LET f == ex[e] IN
    /\ f.pc = "poll"
    /\ IF DeadlineReached(now, f.deadline)
       THEN /\ SetFrame(e, Returned(f, ApplyNormalization(
                    PollerTimeoutResult(f.poll_timeout, f.platform_name, "web_scraper",
                        f.trigger_sent_at, f.snapshot_id_received_at, now),
                    f.normalize_func)))
            /\ UNCHANGED <<now, calls>>
       ELSE \E out \in StatusOutcomes, rtt \in Rtts :
              LET t == now + rtt IN
              /\ now' = t
              /\ calls' = Append(calls, Call(e, "get_status", f.snapshot_id,
                                             OutcomeLabel(out), out.ret))
              /\ IF out.exc # NoExc
                 THEN SetFrame(e, Returned(f, ApplyNormalization(
                          PollerStatusErrorResult(out.exc, f.platform_name, "web_scraper",
                              f.trigger_sent_at, f.snapshot_id_received_at, t),
                          f.normalize_func)))
                 ELSE IF IsReadyStatus(out.ret)
                 THEN SetFrame(e, [f EXCEPT !.pc = "fetch"])
                 ELSE IF IsFailedStatus(out.ret)
                 THEN SetFrame(e, Returned(f, ApplyNormalization(
                          PollerFailedResult(out.ret, f.platform_name, "web_scraper",
                              f.trigger_sent_at, f.snapshot_id_received_at, t),
                          f.normalize_func)))
                 ELSE SetFrame(e, [f EXCEPT !.pc = "sleeping"])

\* poll_until_ready: the suspension between two status checks
Sleep(e) ==
    LET f == ex[e] IN
    /\ f.pc = "sleeping"
    /\ now' = now + f.poll_interval
    /\ SetFrame(e, [f EXCEPT !.pc = "poll"])
    /\ UNCHANGED calls

\* poll_until_ready after "ready": fetch_result, then _poll_and_fetch's
\* normalization and the return of execute
Fetch(e) ==
    LET f == ex[e] IN
    /\ f.pc = "fetch"
    /\ \E out \in FetchOutcomes, rtt \in Rtts :
         LET t == now + rtt
             r == IF out.exc # NoExc
                  THEN PollerFetchErrorResult(out.exc, f.platform_name, "web_scraper",
                           f.trigger_sent_at, f.snapshot_id_received_at, t)
                  ELSE PollerSuccessResult(out.data, f.platform_name, "web_scraper",
                           f.trigger_sent_at, f.snapshot_id_received_at, t)
             g == [f EXCEPT !.fetched = out.data,
                            !.normalize_calls =
                                IF ShouldNormalize(r, f.normalize_func) THEN @ + 1 ELSE @]
         IN /\ now' = t
            /\ calls' = Append(calls, Call(e, "fetch_result", f.snapshot_id,
                                           OutcomeLabel(out), NoneStr))
            /\ IF ShouldNormalize(r, f.normalize_func)
                  /\ NormalizeRaises(f.normalize_func, r.data)
               THEN SetFrame(e, Raised(g, NormalizeErrorExc))
               ELSE SetFrame(e, Returned(g, ApplyNormalization(r, f.normalize_func)))

\* BaseWebScraper.scrape_async after execute returned
ScrapeAsyncFinish(e) ==
    LET f == ex[e] IN
    /\ f.pc = "exec_returned" /\ f.op = "scrape_async"
    /\ SetFrame(e, [f EXCEPT !.result = ScrapeCollapse(f.result, f.urls), !.pc = "done"])
    /\ UNCHANGED <<now, calls>>

\* AmazonScraper._scrape_urls after execute returned (products and sellers)
ScrapeUrlsFinish(e) ==
    LET f == ex[e] IN
    /\ f.pc = "exec_returned" /\ f.op \in {"products", "sellers"}
    /\ SetFrame(e, [f EXCEPT !.result = AmazonCollapse(f.result, f.urls), !.pc = "done"])
    /\ UNCHANGED <<now, calls>>

\* AmazonScraper.reviews_async after execute returned
ReviewsFinish(e) ==
    LET f == ex[e] IN
    /\ f.pc = "exec_returned" /\ f.op = "reviews"
    /\ SetFrame(e, [f EXCEPT !.result = AmazonCollapse(f.result, f.urls), !.pc = "done"])
    /\ UNCHANGED <<now, calls>>

\* a call of a client operation: no arguments
ClientFrame(op) ==
    Frame(op, "client", ListArg(<<>>), 0, 0, NoneInt, NoneStr, NoneInt)

\* list_zones raised exc: test_connection turns it into False when it catches it
ZonesRaised(f, exc) ==
    IF f.op = "test_connection" /\ TestConnectionCatches(exc)
    THEN [f EXCEPT !.value = "False", !.pc = "returned"]
    ELSE Raised(f, exc)

\* list_zones returned v: test_connection returns True
ZonesReturned(f, v) ==
    [f EXCEPT !.value = IF f.op = "test_connection" THEN "True" ELSE v,
              !.pc = "returned"]

\* list_zones: engine.get("/zone/get_active_zones")
ZonesRequest(e) ==
    LET f == ex[e] IN
    /\ f.pc = "start" /\ f.op \in ClientOps
    /\ \E out \in EngineOutcomes, rtt \in Rtts :
         /\ now' = now + rtt
         /\ calls' = Append(calls, Call(e, "get", ZONES_ENDPOINT, OutcomeLabel(out), NoneStr))
         /\ IF out.exc # NoExc
            THEN SetFrame(e, ZonesRaised(f, out.exc))
            ELSE SetFrame(e, [f EXCEPT !.response = out.response, !.pc = "zones_response"])

\* list_zones: the status test and the parse of the body
ZonesResponse(e) ==
    LET f == ex[e] IN
    /\ f.pc = "zones_response"
    /\ IF ListZonesBadStatus(f.response) \/ ListZonesBadJson(f.response)
       THEN SetFrame(e, ZonesRaised(f, ListZonesError(f.response)))
       ELSE SetFrame(e, ZonesReturned(f, ListZonesValue(f.response)))
    /\ UNCHANGED <<now, calls>>

ClientInit ==
    /\ ex \in [Execs -> {ClientFrame(op) : op \in ClientOps}]
    /\ now = 0
    /\ calls = <<>>
    /\ client = NoClient

ClientStep(e) == ZonesRequest(e) \/ ZonesResponse(e)

ClientNext == (\E e \in Execs : ClientStep(e)) /\ UNCHANGED client

\* calls of the client operations, interleaved at their awaits
ClientSpec == ClientInit /\ [][ClientNext]_vars

\* the step execution e can take
Step(e) ==
        \/ ScrapeAsyncBegin(e)
        \/ ProductsBegin(e)
        \/ SellersBegin(e)
        \/ ReviewsBegin(e)
        \/ Trigger(e)
        \/ PollCheck(e)
        \/ Sleep(e)
        \/ Fetch(e)
        \/ ScrapeAsyncFinish(e)
        \/ ScrapeUrlsFinish(e)
        \/ ReviewsFinish(e)

Next == (\E e \in Execs : Step(e)) /\ UNCHANGED client

Spec == Init /\ [][Next]_vars

\* the event loop runs every coroutine that can take a step
FairSpec == Spec /\ WF_vars(Next)

\* two operations of one cached AmazonScraper (one WorkflowExecutor), started
\* together and interleaved at their awaits
ConcFrames(e) ==
    IF e = "e1"
    THEN {Frame("scrape_async", "amazon", StrArg("u1"), DefaultPollInterval,
                DefaultPollInterval, NoneInt, NoneStr, NoneInt),
          Frame("products", "amazon", StrArg("u1"), AmazonPollInterval,
                AmazonPollInterval, NoneInt, NoneStr, NoneInt)}
    ELSE {Frame("reviews", "amazon", ListArg(<<"u1", "u2">>), AmazonPollInterval,
                AmazonPollInterval, 30, NoneStr, NoneInt),
          Frame("sellers", "amazon", StrArg("u2"), AmazonPollInterval,
                AmazonPollInterval, NoneInt, NoneStr, NoneInt)}

ConcInit ==
    /\ ex \in [e1 : ConcFrames("e1"), e2 : ConcFrames("e2")]
    /\ now = 0
    /\ calls = <<>>
    /\ client = NoClient

\* the provider issues a snapshot id once: the two jobs get different ids
DistinctIds ==
    \A i \in 1..Len(calls) :
        calls[i].op = "trigger" =>
            calls[i].ret # (IF calls[i].e = "e1" THEN "snap2" ELSE "snap1")

ConcNext == Next /\ DistinctIds'

ConcSpec == ConcInit /\ [][ConcNext]_vars

\* the caller cancels execution e while the poller is suspended: the sleep
\* raises CancelledError at once, and neither _poll_and_fetch, execute nor the
\* scraper operation catches it; the frame notes how many calls had been made
Cancel(e) ==
    LET f == ex[e] IN
    /\ f.pc = "sleeping"
    /\ SetFrame(e, [Raised(f, CancelledErrorExc) EXCEPT !.cancelled = Len(calls)])
    /\ UNCHANGED <<now, calls>>

CancelStep(e) == Step(e) \/ Cancel(e)

CancelNext == (\E e \in Execs : CancelStep(e)) /\ DistinctIds' /\ UNCHANGED client

\* two interleaved operations, each of which its caller may cancel mid-wait
CancelSpec == ConcInit /\ [][CancelNext]_vars

----------------------------------------------------------------------------
(* Vocabulary of the properties *)

\* execute has returned a record (kept in rec) to its caller
ExecReturned(f) == f.pc \in {"exec_returned", "done"}

\* the operation is over: it returned or an exception left it
Terminal(f) == f.pc \in {"done", "raised"}

\* execute was entered
InExecute(f) == f.pc \notin {"off", "start"} /\ f.raised # ValidationErrorExc

CallsOf(e, op) == SelectSeq(calls, LAMBDA c : c.e = e /\ c.op = op)

NoPolling(e) == Len(CallsOf(e, "get_status")) = 0 /\ Len(CallsOf(e, "fetch_result")) = 0

FetchOk(e) == \E i \in 1..Len(calls) :
    calls[i].e = e /\ calls[i].op = "fetch_result" /\ calls[i].out = "ok"

TriggerRaisedAPIError(e) == \E i \in 1..Len(calls) :
    calls[i].e = e /\ calls[i].op = "trigger" /\ calls[i].out = "APIError"

TriggerReturnedNoId(e) == \E i \in 1..Len(calls) :
    calls[i].e = e /\ calls[i].op = "trigger" /\ calls[i].out = "ok" /\ FalsyStr(calls[i].ret)

TriggerReturnedId(e) == \E i \in 1..Len(calls) :
    calls[i].e = e /\ calls[i].op = "trigger" /\ calls[i].out = "ok" /\ ~FalsyStr(calls[i].ret)

SuccessShape(r) == r.success /\ r.data # DNone /\ ~r.error.set
FailureShape(r) == ~r.success /\ NonEmptyError(r.error)

\* normalize_func(payload), the payload itself when there is no normalize_func
NormalizedPayload(normalize_func, d) ==
    IF normalize_func = NoneStr THEN d ELSE Normalize(normalize_func, d)

----------------------------------------------------------------------------
\* C1: every record execute returns has exactly one of the two shapes:
\* success=true with data set and no error, or success=false with a
\* non-empty error; on no path neither or both.
C1_OneShape ==
    \A e \in Execs :
        ExecReturned(ex[e]) =>
            /\ ex[e].rec # NoResult
            /\ SuccessShape(ex[e].rec) \/ FailureShape(ex[e].rec)
            /\ ~(SuccessShape(ex[e].rec) /\ FailureShape(ex[e].rec))

C1_Witness ==
    \E e \in Execs :
        /\ ExecReturned(ex[e])
        /\ SuccessShape(ex[e].rec)
        /\ Len(ex[e].rec.data.items) = 2

\* C2 as stated: after a usable snapshot id, in-progress checks, 'ready' and a
\* successful fetch, execute returns success=true, status 'ready' and
\* data = normalize_func(fetched payload).
C2_AsStated ==
    \A e \in Execs :
        (ExecReturned(ex[e]) /\ FetchOk(e)) =>
            /\ ex[e].rec.success
            /\ ex[e].rec.status = "ready"
            /\ ex[e].rec.data = NormalizedPayload(ex[e].normalize_func, ex[e].fetched)

\* C2 amended: on the success path, when normalize_func does not raise, execute
\* returns success=true, status 'ready', and data is the normalized payload if
\* the payload is non-empty and the payload as fetched if it is empty.
C2_SuccessPath ==
    \A e \in Execs :
        (/\ Terminal(ex[e]) \/ ExecReturned(ex[e])
         /\ FetchOk(e)
         /\ ~(Truthy(ex[e].fetched) /\ NormalizeRaises(ex[e].normalize_func, ex[e].fetched)))
        =>
            /\ ExecReturned(ex[e])
            /\ ex[e].rec.success
            /\ ex[e].rec.status = "ready"
            /\ ex[e].rec.data =
                 IF Truthy(ex[e].fetched)
                 THEN NormalizedPayload(ex[e].normalize_func, ex[e].fetched)
                 ELSE ex[e].fetched

C2_Witness ==
    \E e \in Execs :
        /\ ExecReturned(ex[e])
        /\ ex[e].snapshot_id = "snap1"
        /\ Len(CallsOf(e, "get_status")) = 3
        /\ ex[e].normalize_func = "map"
        /\ ex[e].fetched = DList(<<"r1">>)
        /\ ex[e].rec.success
        /\ ex[e].rec.data = DList(<<"N1">>)

\* C3: when trigger raises an API error or returns no usable snapshot id,
\* execute returns success=false, status='error' without any get_status or
\* fetch_result call; after an API error the error text contains
\* "Trigger failed".
C3_TriggerFastFail ==
    \A e \in Execs :
        (TriggerRaisedAPIError(e) \/ TriggerReturnedNoId(e)) =>
            /\ ExecReturned(ex[e])
            /\ ~ex[e].rec.success
            /\ ex[e].rec.status = "error"
            /\ NoPolling(e)
            /\ TriggerRaisedAPIError(e) => Contains(ex[e].rec.error, "Trigger failed: ")

C3_Witness ==
    \E e \in Execs :
        /\ TriggerRaisedAPIError(e)
        /\ ex[e].op = "products"
        /\ ex[e].pc = "done"
        /\ Contains(ex[e].result.error, "Trigger failed: ")

\* C4: within one execution every get_status and fetch_result call comes after
\* the completed trigger call and uses the snapshot id that trigger returned,
\* and fetch_result comes only after a get_status call for the same snapshot id
\* returned 'ready'.
C4_Ordering ==
    \A i \in 1..Len(calls) :
        /\ calls[i].op \in {"get_status", "fetch_result"} =>
              \E j \in 1..(i - 1) :
                  /\ calls[j].e = calls[i].e
                  /\ calls[j].op = "trigger"
                  /\ calls[j].out = "ok"
                  /\ calls[j].ret = calls[i].sid
        /\ calls[i].op = "fetch_result" =>
              \E j \in 1..(i - 1) :
                  /\ calls[j].e = calls[i].e
                  /\ calls[j].op = "get_status"
                  /\ calls[j].sid = calls[i].sid
                  /\ calls[j].ret = "ready"

C4_Witness ==
    \E i \in 1..Len(calls) :
        /\ calls[i].op = "fetch_result"
        /\ calls[i].sid = "snap2"
        /\ i >= 4

\* C5: once a get_status call returned 'failed', the execution issues no
\* further get_status and no fetch_result call, and execute returns a
\* success=false record that is not a timeout.
C5_FailedShortCircuits ==
    \A i \in 1..Len(calls) :
        (calls[i].op = "get_status" /\ calls[i].ret = "failed") =>
            /\ \A j \in (i + 1)..Len(calls) :
                   calls[j].e = calls[i].e => calls[j].op \notin {"get_status", "fetch_result"}
            /\ ExecReturned(ex[calls[i].e])
            /\ ~ex[calls[i].e].rec.success
            /\ ex[calls[i].e].rec.status = "error"

C5_Witness ==
    \E i \in 1..Len(calls) :
        /\ i >= 3
        /\ calls[i].op = "get_status" /\ calls[i].ret = "failed"
        /\ ex[calls[i].e].pc = "done"
        /\ ~ex[calls[i].e].rec.success

\* every status check of e so far reported an in-progress status
OnlyInProgress(e) ==
    \A i \in 1..Len(calls) :
        (calls[i].e = e /\ calls[i].op = "get_status") =>
            (calls[i].out = "ok" /\ calls[i].ret \notin {"ready", "failed"})

\* C6: when get_status reports neither 'ready' nor 'failed' before the
\* deadline, execute returns a record with status='timeout' and success=false,
\* has called fetch_result never, and raises nothing.
C6_TimeoutIsReturned ==
    \A e \in Execs :
        /\ (TriggerReturnedId(e) /\ OnlyInProgress(e) /\ ex[e].pc \notin {"poll", "sleeping"}) =>
              /\ ExecReturned(ex[e])
              /\ ex[e].raised = NoExc
              /\ ex[e].rec.status = "timeout"
              /\ ~ex[e].rec.success
              /\ Len(CallsOf(e, "fetch_result")) = 0
        /\ (ExecReturned(ex[e]) /\ ex[e].rec.status = "timeout") =>
              /\ ~ex[e].rec.success
              /\ Len(CallsOf(e, "fetch_result")) = 0
              /\ OnlyInProgress(e)

C6_Witness ==
    \E e \in Execs :
        /\ ExecReturned(ex[e])
        /\ ex[e].rec.status = "timeout"
        /\ Len(CallsOf(e, "get_status")) >= 2
        /\ ex[e].raised = NoExc

\* the bound on the status checks of one execution
CheckBound(f) == (f.poll_timeout \div f.poll_interval) + 1

\* C7: for every provider behaviour an execution eventually returns a result
\* record, and it makes at most poll_timeout / poll_interval + 1 status checks.
\* (As long as the execution has not returned its record it can take a step,
\* and its status checks, one per turn of the polling loop, stay within the
\* bound.)
C7_Termination ==
    \A e \in Execs :
        (InExecute(ex[e]) /\ ex[e].normalize_func # "raise") =>
            /\ ExecReturned(ex[e]) \/ ENABLED Step(e)
            /\ Len(CallsOf(e, "get_status")) <= CheckBound(ex[e])

\* C8: within one execute call trigger is called at most once (exactly once
\* when execute is past it) and fetch_result at most once, and a call that
\* failed with an error is not issued again.
C8_NoRetry ==
    /\ \A e \in Execs :
          /\ Len(CallsOf(e, "trigger")) <= 1
          /\ (InExecute(ex[e]) /\ ex[e].pc # "trigger") => Len(CallsOf(e, "trigger")) = 1
          /\ Len(CallsOf(e, "fetch_result")) <= 1
    /\ \A i \in 1..Len(calls) :
          calls[i].out # "ok" =>
              \A j \in (i + 1)..Len(calls) :
                  ~(calls[j].e = calls[i].e /\ calls[j].op = calls[i].op)

C8_Witness ==
    \E e \in Execs :
        /\ Terminal(ex[e])
        /\ Len(CallsOf(e, "trigger")) = 1
        /\ Len(CallsOf(e, "fetch_result")) = 1
        /\ \E i \in 1..Len(calls) : calls[i].op = "fetch_result" /\ calls[i].out = "APIError"

\* C9: no error of the Dataset API client (API error or authentication error)
\* raised by trigger, get_status or fetch_result leaves execute as an
\* exception; each becomes a success=false record.
C9_NoClientErrorEscapes ==
    \A e \in Execs :
        /\ ex[e].raised \notin ClientErrors
        /\ (ExecReturned(ex[e])
            /\ \E i \in 1..Len(calls) : calls[i].e = e /\ calls[i].out # "ok")
           => ~ex[e].rec.success

\* C10: a call given a single URL whose fetched data is a one-element sequence
\* returns data = the sole element and url = the input URL (scrape_async and
\* the Amazon products, reviews and sellers operations).
C10_SingleUrlCollapse ==
    \A e \in Execs :
        (/\ ex[e].pc = "done"
         /\ ex[e].op \in {"scrape_async", "products", "reviews", "sellers"}
         /\ IsStr(ex[e].urls)
         /\ FetchOk(e)
         /\ Len(ex[e].fetched.items) = 1)
        =>
            /\ ex[e].result.success
            /\ ex[e].result.data = DRec(ex[e].fetched.items[1])
            /\ ex[e].result.url = ex[e].urls.items[1]

C10_Witness ==
    \E e \in Execs :
        /\ ex[e].pc = "done"
        /\ ex[e].op = "reviews"
        /\ ex[e].urls = StrArg("u2")
        /\ ex[e].fetched = DList(<<"r2">>)
        /\ ex[e].result.data = DRec("r2")
        /\ ex[e].result.url = "u2"

\* the operations of the scrapers (they post-process the record of execute)
ScraperOps == {"scrape_async", "products", "reviews", "sellers"}

\* a scraper operation of e returned a successful record
ScraperSucceeded(e) ==
    ex[e].pc = "done" /\ ex[e].op \in ScraperOps /\ ex[e].result.success

\* C11 as stated: on every successful result a single-URL call yields a single
\* record, whatever number of records was fetched, and a call given a list of
\* URLs yields a sequence.
C11_AsStated ==
    \A e \in Execs :
        ScraperSucceeded(e) =>
            IF IsStr(ex[e].urls)
            THEN ex[e].result.data.kind = "rec"
            ELSE IsList(ex[e].result.data)

\* C11 amended: on every successful result a call given a single URL as a
\* string yields a single record exactly when one record was fetched, and the
\* fetched sequence itself when none or several were fetched; a call given
\* several URLs yields the fetched sequence, also when it holds exactly one
\* record.
C11_Cardinality ==
    \A e \in Execs :
        ScraperSucceeded(e) =>
            /\ IsStr(ex[e].urls) =>
                  IF Len(ex[e].fetched.items) = 1
                  THEN ex[e].result.data = DRec(ex[e].fetched.items[1])
                  ELSE IsList(ex[e].result.data) /\ ex[e].result.data = ex[e].fetched
            /\ (~IsStr(ex[e].urls) /\ Len(ex[e].urls.items) >= 2) =>
                  IsList(ex[e].result.data) /\ ex[e].result.data = ex[e].fetched

C11_Witness ==
    \E e \in Execs :
        /\ ScraperSucceeded(e)
        /\ ex[e].op = "scrape_async"
        /\ ex[e].urls = StrArg("u1")
        /\ ex[e].fetched = DList(<<"r1", "r2">>)
        /\ ex[e].result.data = DList(<<"r1", "r2">>)

\* C12: a call that submits exactly one URL as a one-element list, and whose
\* fetched data is a one-element sequence, gets the collapse of a call given
\* that URL as a string: data = the sole element, url = that one input.
C12_ListOfOneCollapses ==
    \A e \in Execs :
        (/\ ScraperSucceeded(e)
         /\ ~IsStr(ex[e].urls)
         /\ Len(ex[e].urls.items) = 1
         /\ Len(ex[e].fetched.items) = 1)
        =>
            /\ ex[e].result.data = DRec(ex[e].fetched.items[1])
            /\ ex[e].result.url = ex[e].urls.items[1]

\* position of the first occurrence of u in url_list, 0 when it is absent
FirstIndex(url_list, u) ==
    IF \E i \in 1..Len(url_list) : url_list[i] = u
    THEN CHOOSE i \in 1..Len(url_list) :
             url_list[i] = u /\ \A j \in 1..(i - 1) : url_list[j] # u
    ELSE 0

\* the records that match a submitted URL appear in the order of submission
InSubmissionOrder(items, url_list) ==
    \A i, j \in 1..Len(items) :
        (/\ i < j
         /\ FirstIndex(url_list, SourceUrl(items[i])) > 0
         /\ FirstIndex(url_list, SourceUrl(items[j])) > 0)
        => FirstIndex(url_list, SourceUrl(items[i])) <= FirstIndex(url_list, SourceUrl(items[j]))

\* a scraper operation of e was given a list of URLs and its fetch succeeded
ListFetched(e) ==
    ex[e].pc = "done" /\ ex[e].op \in ScraperOps /\ ~IsStr(ex[e].urls) /\ FetchOk(e)

\* C13 as stated: for a list of N URLs whose fetch succeeds, data is a sequence
\* of at most N records, in the order in which their URLs were submitted,
\* whatever payload the provider returned.
C13_AsStated ==
    \A e \in Execs :
        ListFetched(e) =>
            /\ IsList(ex[e].result.data)
            /\ Len(ex[e].result.data.items) <= Len(ex[e].urls.items)
            /\ InSubmissionOrder(ex[e].result.data.items, ex[e].urls.items)

\* C13 amended: for a list of URLs whose fetch succeeds, the returned record is
\* successful and its data is the sequence the provider returned, with the same
\* records in the same order; the operation neither truncates the sequence to
\* the number of URLs nor reorders it.
C13_PayloadPassedThrough ==
    \A e \in Execs :
        ListFetched(e) =>
            /\ ex[e].result.success
            /\ IsList(ex[e].result.data)
            /\ Len(ex[e].result.data.items) = Len(ex[e].fetched.items)
            /\ \A i \in 1..Len(ex[e].fetched.items) :
                   ex[e].result.data.items[i] = ex[e].fetched.items[i]

C13_Witness ==
    \E e \in Execs :
        /\ ListFetched(e)
        /\ ex[e].op = "sellers"
        /\ ex[e].urls = ListArg(<<"u1", "u2">>)
        /\ ex[e].result.data = DList(<<"r2", "r1">>)

\* _poll_and_fetch of e is over: execute returned or normalize_func raised
PollAndFetchOver(e) == ExecReturned(ex[e]) \/ ex[e].raised = NormalizeErrorExc

\* C14 as stated: whenever the poller's result is successful and a
\* normalize_func was supplied, normalize_func is called and data is
\* normalize_func(payload), for every payload, empty or not; otherwise
\* normalize_func is not called and data is as the poller returned it.
C14_AsStated ==
    \A e \in Execs :
        /\ (ExecReturned(ex[e]) /\ FetchOk(e) /\ ex[e].normalize_func # NoneStr) =>
              /\ ex[e].normalize_calls = 1
              /\ ex[e].rec.data = Normalize(ex[e].normalize_func, ex[e].fetched)
        /\ (ExecReturned(ex[e]) /\ ~(FetchOk(e) /\ ex[e].normalize_func # NoneStr)) =>
              /\ ex[e].normalize_calls = 0
              /\ ex[e].rec.data = IF FetchOk(e) THEN ex[e].fetched ELSE DNone

\* C14 amended: normalize_func is called, once, exactly when the poller's
\* result is successful, its payload is non-empty and a normalize_func was
\* supplied, and then data is normalize_func(payload) unless normalize_func
\* raised; in every other case normalize_func is not called and data is as the
\* poller returned it (the fetched payload, or nothing on a failure).
C14_NormalizedExactlyWhen ==
    \A e \in Execs :
        PollAndFetchOver(e) =>
            IF FetchOk(e) /\ Truthy(ex[e].fetched) /\ ex[e].normalize_func # NoneStr
            THEN /\ ex[e].normalize_calls = 1
                 /\ ExecReturned(ex[e]) =>
                        ex[e].rec.data = Normalize(ex[e].normalize_func, ex[e].fetched)
            ELSE /\ ex[e].normalize_calls = 0
                 /\ ExecReturned(ex[e])
                 /\ ex[e].rec.data = IF FetchOk(e) THEN ex[e].fetched ELSE DNone

C14_Witness ==
    \E e \in Execs :
        /\ ExecReturned(ex[e])
        /\ ex[e].normalize_func = "wrap"
        /\ ex[e].fetched = DList(<<"r2">>)
        /\ ex[e].normalize_calls = 1
        /\ ex[e].rec.data.kind = "wrapped"

\* one of the URLs given to the operation is invalid
HasInvalidUrl(arg) == \E i \in 1..Len(arg.items) : UrlInvalid(arg.items[i])

\* C15: when a URL given to scrape_async or to the Amazon products, reviews or
\* sellers operation is invalid, the operation raises a validation error, has
\* made no trigger, get_status or fetch_result call, and takes no further step
\* (nothing is retried).
C15_ValidationFirst ==
    \A e \in Execs :
        (ex[e].op \in ScraperOps /\ HasInvalidUrl(ex[e].urls) /\ ex[e].pc # "start") =>
            /\ ex[e].pc = "raised"
            /\ ex[e].raised = ValidationErrorExc
            /\ \A i \in 1..Len(calls) : calls[i].e # e
            /\ ~ENABLED Step(e)

C15_Witness ==
    \E e \in Execs :
        /\ ex[e].op = "reviews"
        /\ ex[e].urls = ListArg(<<"u1", "bad">>)
        /\ ex[e].raised = ValidationErrorExc
        /\ calls = <<>>

\* the zones request of e: its engine.get call, if it was made
ZonesCall(e) == CallsOf(e, "get")

\* the zones request of e succeeded: a 200 response whose body parsed
ZonesRequestSucceeded(e) ==
    /\ Len(ZonesCall(e)) = 1
    /\ ZonesCall(e)[1].out = "ok"
    /\ ex[e].response.status = 200
    /\ ex[e].response.body # "garbage"

\* C16: test_connection returns True when the zones request succeeds, and
\* returns False, without raising, when that request fails (authentication
\* error, API error, a status other than 200, a body that does not parse).
C16_TestConnection ==
    \A e \in Execs :
        (ex[e].op = "test_connection" /\ ex[e].pc \notin {"start", "zones_response"}) =>
            /\ ex[e].pc = "returned"
            /\ ex[e].raised = NoExc
            /\ ex[e].value = IF ZonesRequestSucceeded(e) THEN "True" ELSE "False"

C16_Witness ==
    \E e \in Execs :
        /\ ex[e].op = "test_connection"
        /\ ex[e].pc = "returned"
        /\ ex[e].value = "False"
        /\ ZonesCall(e)[1].out = "AuthenticationError"

\* fetch_result of e returned data after a get_status call of e returned 'ready'
FetchedAfterReady(e) ==
    \E i, j \in 1..Len(calls) :
        /\ i < j
        /\ calls[i].e = e /\ calls[i].op = "get_status" /\ calls[i].ret = "ready"
        /\ calls[j].e = e /\ calls[j].op = "fetch_result" /\ calls[j].out = "ok"

\* C17: on every record execute returns, status is one of 'ready', 'error',
\* 'timeout'; success=true comes only with status='ready' and only when
\* fetch_result returned data after a 'ready' status; 'error' and 'timeout'
\* come with success=false.
C17_StatusAndSuccess ==
    \A e \in Execs :
        ExecReturned(ex[e]) =>
            /\ ex[e].rec.status \in {"ready", "error", "timeout"}
            /\ ex[e].rec.success => (ex[e].rec.status = "ready" /\ FetchedAfterReady(e))
            /\ ex[e].rec.status \in {"error", "timeout"} => ~ex[e].rec.success

C17_Witness ==
    \E e \in Execs :
        /\ ExecReturned(ex[e])
        /\ ex[e].op = "execute"
        /\ ex[e].rec.status = "error"
        /\ ~ex[e].rec.success
        /\ \E i \in 1..Len(calls) : calls[i].op = "get_status" /\ calls[i].ret = "ready"
        /\ \E j \in 1..Len(calls) : calls[j].op = "fetch_result" /\ calls[j].out = "AuthenticationError"

\* timestamp a is not after timestamp b, for the ones that are present
NotAfter(a, b) == (a # NoneInt /\ b # NoneInt) => a <= b

\* C18: on every record execute returns, trigger_sent_at <=
\* snapshot_id_received_at <= data_fetched_at for every timestamp the record
\* carries; trigger_sent_at is always carried, and the record carries the times
\* the execution noted.
C18_MonotoneTimestamps ==
    \A e \in Execs :
        ExecReturned(ex[e]) =>
            LET r == ex[e].rec IN
            /\ r.trigger_sent_at # NoneInt
            /\ r.trigger_sent_at = ex[e].trigger_sent_at
            /\ r.snapshot_id_received_at = ex[e].snapshot_id_received_at
            /\ NotAfter(r.trigger_sent_at, r.snapshot_id_received_at)
            /\ NotAfter(r.snapshot_id_received_at, r.data_fetched_at)
            /\ NotAfter(r.trigger_sent_at, r.data_fetched_at)
            /\ NotAfter(r.data_fetched_at, now)

C18_Witness ==
    \E e \in Execs :
        /\ ExecReturned(ex[e])
        /\ ex[e].rec.success
        /\ ex[e].rec.trigger_sent_at # NoneInt
        /\ ex[e].rec.trigger_sent_at < ex[e].rec.snapshot_id_received_at
        /\ ex[e].rec.snapshot_id_received_at < ex[e].rec.data_fetched_at

\* the client error a call-log label stands for
ExcOfLabel(label) == IF label = "APIError" THEN APIErrorExc ELSE AuthErrorExc

Last(seq) == seq[Len(seq)]

\* the record execute owes execution e, computed from what e's own calls
\* returned, e's own arguments and the times e itself read from the clock
OwnRecord(e) ==
    LET f == ex[e]
        tr == CallsOf(e, "trigger")
        st == CallsOf(e, "get_status")
        fe == CallsOf(e, "fetch_result")
        at == f.rec.data_fetched_at
    IN  IF tr[1].out # "ok"
        THEN TriggerFailedResult(ExcOfLabel(tr[1].out), f.platform_name, f.trigger_sent_at, at)
        ELSE IF FalsyStr(tr[1].ret)
        THEN NoSnapshotResult(f.platform_name, f.trigger_sent_at, at)
        ELSE IF Len(fe) > 0 /\ fe[1].out = "ok"
        THEN ApplyNormalization(
                 PollerSuccessResult(f.fetched, f.platform_name, "web_scraper",
                     f.trigger_sent_at, f.snapshot_id_received_at, at),
                 f.normalize_func)
        ELSE IF Len(fe) > 0
        THEN PollerFetchErrorResult(ExcOfLabel(fe[1].out), f.platform_name, "web_scraper",
                 f.trigger_sent_at, f.snapshot_id_received_at, at)
        ELSE IF Len(st) > 0 /\ Last(st).out # "ok"
        THEN PollerStatusErrorResult(ExcOfLabel(Last(st).out), f.platform_name, "web_scraper",
                 f.trigger_sent_at, f.snapshot_id_received_at, at)
        ELSE IF Len(st) > 0 /\ Last(st).ret = "failed"
        THEN PollerFailedResult("failed", f.platform_name, "web_scraper",
                 f.trigger_sent_at, f.snapshot_id_received_at, at)
        ELSE PollerTimeoutResult(f.poll_timeout, f.platform_name, "web_scraper",
                 f.trigger_sent_at, f.snapshot_id_received_at, at)

\* C19: with two executions interleaved on one cached scraper, each one polls
\* and fetches only the snapshot id its own trigger returned, never the
\* other's; the attribute of the shared executor it reads keeps its value; and
\* the record it returns is the one its own calls determine, whatever the other
\* execution did (succeeded, failed, timed out, raised or has not finished).
C19_Independent ==
    /\ \A i \in 1..Len(calls) :
          calls[i].op \in {"get_status", "fetch_result"} =>
              /\ calls[i].sid = CallsOf(calls[i].e, "trigger")[1].ret
              /\ \A d \in Execs \ {calls[i].e} :
                     Len(CallsOf(d, "trigger")) > 0 =>
                         calls[i].sid # CallsOf(d, "trigger")[1].ret
    /\ \A e \in Execs :
          /\ ex[e].platform_name = ExecutorPlatformName(ex[e].cls)
          /\ ExecReturned(ex[e]) => ex[e].rec = OwnRecord(e)

C19_Witness ==
    /\ ex["e1"].pc = "done" /\ ex["e2"].pc = "done"
    /\ ex["e1"].result.success
    /\ ex["e2"].result.status = "timeout"
    /\ Len(calls) >= 5
    /\ calls[1].e = "e2" /\ calls[2].e = "e1" /\ calls[3].e = "e2"
    /\ Last(calls).e = "e1" /\ Last(calls).op = "fetch_result"

\* execute returned the timeout record to e
TimedOut(e) == ExecReturned(ex[e]) /\ ex[e].rec.status = "timeout"

\* the time e waited between the receipt of the snapshot id and the return of
\* the timeout record
Waited(e) == ex[e].rec.data_fetched_at - ex[e].rec.snapshot_id_received_at

\* C20 as stated: the timeout record is returned when the time waited since
\* snapshot_id_received_at is within one poll_interval of poll_timeout.
C20_AsStated ==
    \A e \in Execs :
        TimedOut(e) =>
            /\ Waited(e) >= ex[e].poll_timeout - ex[e].poll_interval
            /\ Waited(e) <= ex[e].poll_timeout + ex[e].poll_interval

\* C20 amended: the deadline is poll_timeout after snapshot_id_received_at,
\* whatever the trigger round trip took; the timeout record is returned no
\* earlier than poll_timeout after the receipt and less than one poll_interval
\* plus one status round trip after poll_timeout; it is returned later than
\* poll_timeout only after a status check.
C20_DeadlineFromReceipt ==
    \A e \in Execs :
        /\ (InExecute(ex[e]) /\ ex[e].deadline # NoneInt) =>
              ex[e].deadline = ex[e].snapshot_id_received_at + ex[e].poll_timeout
        /\ TimedOut(e) =>
              /\ Waited(e) >= ex[e].poll_timeout
              /\ Waited(e) < ex[e].poll_timeout + ex[e].poll_interval + MaxRtt
              /\ Waited(e) > ex[e].poll_timeout => Len(CallsOf(e, "get_status")) > 0

C20_Witness ==
    \E e \in Execs :
        /\ TimedOut(e)
        /\ ex[e].rec.trigger_sent_at < ex[e].rec.snapshot_id_received_at
        /\ Waited(e) > ex[e].poll_timeout + ex[e].poll_interval

\* execution e was cancelled during its wait
WasCancelled(e) == ex[e].cancelled # NoneInt

\* C21: when an execution is cancelled while suspended between two status
\* checks, CancelledError leaves the operation at once (no record, no further
\* step), no call for its snapshot id is issued after the cancellation, it
\* holds no fetched payload, response or record, and the other execution goes
\* on: it can still step until it is over and the record it returns is the
\* one its own calls determine.
C21_CancelSafe ==
    \A e \in Execs :
        WasCancelled(e) =>
            /\ ex[e].pc = "raised" /\ ex[e].raised = CancelledErrorExc
            /\ ~ENABLED CancelStep(e)
            /\ \A i \in (ex[e].cancelled + 1)..Len(calls) :
                   calls[i].e # e /\ calls[i].sid # ex[e].snapshot_id
            /\ Len(CallsOf(e, "fetch_result")) = 0
            /\ ex[e].fetched = DNone /\ ex[e].rec = NoResult /\ ex[e].response = NoResponse
            /\ \A d \in Execs \ {e} :
                   /\ ~(Terminal(ex[d]) \/ ExecReturned(ex[d])) => ENABLED Step(d)
                   /\ ExecReturned(ex[d]) => ex[d].rec = OwnRecord(d)

C21_Witness ==
    /\ WasCancelled("e1")
    /\ ex["e1"].snapshot_id = "snap1"
    /\ ex["e2"].pc = "done" /\ ex["e2"].result.success
    /\ Len(calls) > ex["e1"].cancelled + 1
    /\ Last(calls).e = "e2" /\ Last(calls).op = "fetch_result"

\* an API request of e failed with APIError
APIRequestFailed(e) == \E i \in 1..Len(calls) : calls[i].e = e /\ calls[i].out = "APIError"

\* the polling timeout of e was exceeded: an accepted job, in-progress
\* answers only, and the wait is over
PollTimeoutExceeded(e) ==
    TriggerReturnedId(e) /\ OnlyInProgress(e) /\ ex[e].pc \notin {"poll", "sleeping"}

C23_TimeoutPassedThrough ==
    \A e \in Execs :
        (ex[e].op = "scrape_async" /\ InExecute(ex[e])) =>
            /\ ex[e].arg_timeout # NoneInt => ex[e].poll_timeout = ex[e].arg_timeout
            /\ ex[e].arg_timeout = NoneInt =>
                   ex[e].poll_timeout = ClassMinPollTimeout(ex[e].cls)

\* normalize_func of e was applied to a successfully fetched payload and raised
NormalizeRaised(e) ==
    FetchOk(e) /\ Truthy(ex[e].fetched) /\ ex[e].normalize_func = "raise"

\* C24: when normalize_func raises while execute applies it to a successfully
\* fetched payload, the exception leaves execute: execute returns no record,
\* neither a success=false record nor the un-normalized data as a success.
C24_NormalizeErrorPropagates ==
    \A e \in Execs :
        NormalizeRaised(e) =>
            /\ ex[e].pc = "raised"
            /\ ex[e].raised = NormalizeErrorExc
            /\ ex[e].normalize_calls = 1
            /\ ex[e].rec = NoResult /\ ex[e].result = NoResult

C24_Witness ==
    \E e \in Execs :
        /\ NormalizeRaised(e)
        /\ ex[e].fetched = DList(<<"r1", "r2">>)
        /\ ex[e].raised = NormalizeErrorExc

\* C25: with the base scraper's normalize_result as normalize_func, the data of
\* a successful record, before cardinality collapsing, equals the payload
\* fetch_result returned, and normalize_result applied to that data again
\* leaves it unchanged.
C25_IdentityNoOp ==
    \A e \in Execs :
        (ExecReturned(ex[e]) /\ ex[e].normalize_func = "identity" /\ ex[e].rec.success) =>
            /\ ex[e].rec.data = ex[e].fetched
            /\ normalize_result(ex[e].rec.data) = ex[e].rec.data
            /\ normalize_result(normalize_result(ex[e].fetched)) = normalize_result(ex[e].fetched)

C25_Witness ==
    \E e \in Execs :
        /\ ExecReturned(ex[e])
        /\ ex[e].op = "scrape_async"
        /\ ex[e].normalize_func = "identity"
        /\ ex[e].normalize_calls = 1
        /\ ex[e].rec.data = DList(<<"r2", "r1">>)

\* the platform the scraper of e is configured with (None when it names none)
ConfiguredPlatform(e) ==
    IF ex[e].op = "execute" THEN ex[e].platform_name
    ELSE IF ex[e].cls = "amazon" THEN "amazon" ELSE NoneStr

\* C26: every record execute returns (trigger failure, missing identifier,
\* status or fetch failure, provider failed, timeout, success) carries the
\* platform of the invoking scraper's configuration and the method
\* "web_scraper", and the record the scraper operation returns after
\* normalization and cardinality collapsing carries the same two values.
C26_StaticMetadata ==
    \A e \in Execs :
        ExecReturned(ex[e]) =>
            /\ ex[e].rec.platform = ConfiguredPlatform(e)
            /\ ex[e].rec.method = "web_scraper"
            /\ ex[e].result.platform = ex[e].rec.platform
            /\ ex[e].result.method = ex[e].rec.method

C26_Witness ==
    \E e \in Execs :
        /\ ex[e].pc = "done"
        /\ ex[e].op = "sellers"
        /\ TriggerReturnedNoId(e)
        /\ ex[e].result.platform = "amazon"
        /\ ex[e].result.method = "web_scraper"

AmazonOps == {"products", "reviews", "sellers"}

\* the dataset an Amazon operation is documented to use
OwnDataset(op) ==
    CASE op = "products" -> "gd_l7q7dkf244hwxbl93"
      [] op = "reviews" -> "gd_l1vq6tkpl34p7mq7c"
      [] op = "sellers" -> "gd_lwjkkolem8c4o7j3s"

\* C27: an Amazon operation that passed validation runs the workflow once
\* (one trigger call) against its own dataset, with one payload item per input
\* URL in submission order, with the caller's timeout as poll_timeout, and with
\* each review filter in every item exactly when the caller supplied it
\* (products and sellers items hold the url only).
C27_AmazonWorkflowCall ==
    \A e \in Execs :
        (ex[e].op \in AmazonOps /\ InExecute(ex[e])) =>
            LET f == ex[e] IN
            /\ f.dataset_id = OwnDataset(f.op)
            /\ f.poll_timeout = f.arg_timeout
            /\ Len(f.payload) = Len(f.urls.items)
            /\ \A i \in 1..Len(f.payload) :
                  /\ f.payload[i].url = f.urls.items[i]
                  /\ f.payload[i].pastDays = IF f.op = "reviews" THEN f.pastDays ELSE NoneInt
                  /\ f.payload[i].keyWord = IF f.op = "reviews" THEN f.keyWord ELSE NoneStr
                  /\ f.payload[i].numOfReviews =
                         IF f.op = "reviews" THEN f.numOfReviews ELSE NoneInt
            /\ Len(CallsOf(e, "trigger")) = IF f.pc = "trigger" THEN 0 ELSE 1

C27_Witness ==
    \E e \in Execs :
        /\ ex[e].op = "reviews"
        /\ ex[e].pc = "done"
        /\ ex[e].urls = ListArg(<<"u2", "u1">>)
        /\ ex[e].pastDays = 30 /\ ex[e].keyWord = NoneStr
        /\ ex[e].payload[2] = Item("u1", 30, NoneStr, ex[e].numOfReviews)
        /\ ex[e].dataset_id = DATASET_ID_REVIEWS

\* C28: a record execute returns carries snapshot_id_received_at if and only
\* if trigger returned a usable snapshot id; on the trigger-failure and
\* missing-identifier paths the record has no snapshot_id_received_at and no
\* data, its url is the empty string, and its data_fetched_at is set, to a
\* time not earlier than trigger_sent_at.
C28_ReceivedIffAccepted ==
    \A e \in Execs :
        ExecReturned(ex[e]) =>
            LET r == ex[e].rec IN
            /\ (r.snapshot_id_received_at # NoneInt) <=> TriggerReturnedId(e)
            /\ (TriggerRaisedAPIError(e) \/ TriggerReturnedNoId(e)) =>
                  /\ r.snapshot_id_received_at = NoneInt
                  /\ r.data = DNone
                  /\ r.url = ""
                  /\ r.data_fetched_at # NoneInt
                  /\ r.data_fetched_at >= r.trigger_sent_at

C28_Witness ==
    \E e \in Execs :
        /\ ExecReturned(ex[e])
        /\ TriggerRaisedAPIError(e)
        /\ ex[e].rec.snapshot_id_received_at = NoneInt
        /\ ex[e].rec.data_fetched_at > ex[e].rec.trigger_sent_at

\* a scraper operation of e, given a single URL, fetched an empty sequence
SingleUrlEmptyFetch(e) ==
    /\ ex[e].pc = "done" /\ ex[e].op \in ScraperOps
    /\ IsStr(ex[e].urls)
    /\ FetchOk(e) /\ ex[e].fetched = DList(<<>>)

\* C29: when a single URL was submitted and the successfully fetched data is
\* an empty sequence, the record keeps success=true, its data is the empty
\* sequence (neither None nor a record), its url is not the input URL but
\* stays empty, and normalize_func was not called.
C29_EmptyResultKept ==
    \A e \in Execs :
        SingleUrlEmptyFetch(e) =>
            /\ ex[e].result.success
            /\ ex[e].result.status = "ready"
            /\ ex[e].result.data = DList(<<>>)
            /\ ex[e].result.url # ex[e].urls.items[1]
            /\ ex[e].result.url = ""
            /\ ex[e].normalize_calls = 0

C29_Witness ==
    \E e \in Execs :
        /\ SingleUrlEmptyFetch(e)
        /\ ex[e].op = "scrape_async"
        /\ ex[e].urls = StrArg("u2")
        /\ ex[e].result.data = DList(<<>>)

\* the engines a service of the client holds
ServiceEngines == {client.service[svc] : svc \in Services} \ {NoEngine}

\* C30: every engine handed to a service is the engine the context manager
\* enters and closes (open while the context is entered, closed after the
\* exit); the client made at most one engine per token; after __aexit__ no
\* engine it made is open.
C30_EngineLifecycle ==
    /\ \A id \in ServiceEngines :
          /\ id = client.engine
          /\ client.in_context => client.engines[id].state = "open"
          /\ (~client.in_context /\ client.exits > 0) => client.engines[id].state = "closed"
    /\ \A i, j \in 1..Len(client.engines) :
          i # j => client.engines[i].token # client.engines[j].token
    /\ (~client.in_context /\ client.exits > 0) =>
          \A i \in 1..Len(client.engines) : client.engines[i].state # "open"

====
